---- MODULE Spec2Model ----
(***************************************************************************)
(* gh-arc: discovery of archived GitHub repositories among the Go module   *)
(* dependencies of a project tree.                                         *)
(*                                                                         *)
(*   pkg/gomod   ListArchived, archivedPrinter                             *)
(*   pkg/client  Client.GetRepoResult (remote lookup behind a TTL cache)   *)
(*   pkg/util    FindFiles                                                 *)
(*                                                                         *)
(* Strings are sequences of tokens: a token is either the separator "/"    *)
(* or a piece of text without a separator, so strings.Split, HasPrefix and *)
(* Sprintf are computed on them the way the Go code computes them.         *)
(***************************************************************************)
EXTENDS Integers, Sequences, FiniteSets, TLC

\* ------------------------------------------------------------------ bounds

\* manifests FindFiles may return
MaxManifests == 2
\* require and replace directives processed in one run, over all manifests
MaxDirectives == 3
\* GetRepoResult calls of the client harness
MaxCalls == 3
\* clock ticks of the client harness (one tick is half the cache TTL)
MaxTime == 4

\* manifests and directives of a run checked under fair scheduling
LiveManifests == 1
LiveDirectives == 2
\* the same two bounds for the runs that record their manifests
RecordedManifests == 2
RecordedDirectives == 2

\* cache.New(1*time.Hour, ...): the default expiration, in ticks of 30 minutes
DefaultExpiration == 2

\* ----------------------------------------------------------------- strings

Slash == "/"
Host == "github.com"

\* the prefix "github.com/" tested by strings.HasPrefix
HostPrefix == <<Host, Slash>>

HasPrefix(s, prefix) ==
    /\ Len(s) >= Len(prefix)
    /\ SubSeq(s, 1, Len(prefix)) = prefix

\* index of the first separator token of s, 0 when there is none
RECURSIVE IndexFrom(_, _, _)
IndexFrom(s, sep, i) ==
    IF i > Len(s) THEN 0
    ELSE IF s[i] = sep THEN i
    ELSE IndexFrom(s, sep, i + 1)

\* strings.Split(s, sep): the pieces between the separators, empty pieces kept
RECURSIVE Split(_, _)
Split(s, sep) ==
    LET k == IndexFrom(s, sep, 1)
    IN  IF k = 0 THEN <<s>>
        ELSE <<SubSeq(s, 1, k - 1)>> \o Split(SubSeq(s, k + 1, Len(s)), sep)

\* fmt.Sprintf("%s/%s", a, b)
SprintfRepo(a, b) == a \o <<Slash>> \o b

\* Go slices are 0-based: parts[i] of the source is Part(parts, i)
Part(parts, i) == parts[i + 1]

\* the module paths manifests are drawn from
Paths ==
    { <<Host, Slash, "x", Slash, "y">>,
      <<Host, Slash, "x", Slash, "y", Slash, "v2">>,
      <<Host, Slash, "a", Slash, "b">>,
      <<"golang.org", Slash, "x", Slash, "tools">>,
      <<Host, Slash, "x">> }

ManifestNames == <<"a/go.mod", "b/go.mod", "c/go.mod", "d/go.mod">>

\* ------------------------------------------------------------- RepoResult

PushedAts == {"2024-01-01T00:00:00Z"}

RepoResults == [Archived : BOOLEAN, PushedAt : PushedAts]

\* RepoResult{}
ZeroRepoResult == [Archived |-> FALSE, PushedAt |-> ""]

NilErr == [msg |-> "nil", repo |-> <<>>, cause |-> ""]

\* fmt.Errorf("failed to fetch repo %s: %w", repo, err)
FetchErr(repo, cause) == [msg |-> "failed to fetch repo", repo |-> repo, cause |-> cause]

\* fmt.Errorf("invalid repo: %s", repo)
InvalidErr(repo) == [msg |-> "invalid repo", repo |-> repo, cause |-> ""]

\* what the remote Get can do: fill the target, or fail
RemoteCauses == {"api error"}

EmptyMap == [k \in {} |-> 0]

At(f, k) == IF k \in DOMAIN f THEN f[k] ELSE 0

Bump(f, k) == IF k \in DOMAIN f THEN [f EXCEPT ![k] = @ + 1] ELSE f @@ (k :> 1)

VARIABLES
    checkIndirect,  \* ListArchived's argument
    pc,             \* where ListArchived is
    files,          \* goModFileNames
    fi,             \* index in files of the manifest being processed (1-based)
    ndir,           \* require and replace directives processed so far
    repos,          \* map[string][]repoInfo
    pending,        \* keys of repos the range loop has not visited yet
    clientCreated,  \* client.New() was called and succeeded
    wg,             \* the WaitGroup counter
    retCount,       \* ListArchived's first result
    retErr,         \* ListArchived's second result
    threads,        \* the goroutines (or the harness's callers) by id
    cache,          \* Client.cache: identity -> [val, exp]
    now,            \* the clock the cache reads
    gets,           \* remote Get calls issued, by identity
    lookups,        \* GetRepoResult calls made, by identity
    output,         \* the lines written to stdout, in order
    count,          \* archivedPrinter.count
    mu,             \* archivedPrinter.mu: <<>> when free, else <<holder>>
    last,           \* the client harness's record of the last returned call, by identity
    walkErr,        \* util.FindFiles returned an error
    dir,            \* what the extraction loop did last, while it runs
    mfs,            \* the manifests parsed so far, by name, where a run records them
    exitCode        \* the process's exit code, -1 while it runs

vars == <<checkIndirect, pc, files, fi, ndir, repos, pending, clientCreated,
          wg, retCount, retErr, threads, cache, now, gets, lookups, output,
          count, mu, last, walkErr, dir, mfs, exitCode>>

mainVars == <<checkIndirect, pc, files, fi, ndir, repos, pending,
              clientCreated, wg, retCount, retErr, walkErr, dir, mfs, exitCode>>

extractVars == <<files, fi, ndir, repos, walkErr, dir, mfs>>

\* nothing the extraction loop does: before it, between manifests and after it
NoDirective == [kind |-> "none", path |-> <<>>, indirect |-> FALSE, name |-> ""]

\* a manifest that parsed, before any of its directives is visited
NoDirectives == [Require |-> <<>>, Replace |-> <<>>]

\* mfs in a run that keeps no record of its manifests
NotRecorded == [name \in {"not recorded"} |-> NoDirectives]

\* the record after modfile.Parse returned the manifest `name`
Parsed(h, name) == IF h = NotRecorded THEN h ELSE h @@ (name :> NoDirectives)

\* the record after the loop visited the entry (modPath, indirect) of mf.Require
Required(h, name, modPath, indirect) ==
    IF h = NotRecorded THEN h
    ELSE [h EXCEPT ![name].Require = Append(@, [path |-> modPath, indirect |-> indirect])]

\* the record after the loop visited the entry of mf.Replace with target newPath
Replaced(h, name, newPath) ==
    IF h = NotRecorded THEN h
    ELSE [h EXCEPT ![name].Replace = Append(@, newPath)]

printerVars == <<output, count, mu>>

clientVars == <<cache, gets, lookups>>

\* ------------------------------------------------------------------- cache

\* a Get that never finds anything
CacheGet_AlwaysMiss(c, repo, t) == [found |-> FALSE, val |-> ZeroRepoResult]

\* go-cache Get: an entry is found unless its expiration has passed
CacheGet(c, repo, t) ==
    IF repo \in DOMAIN c /\ ~(t > c[repo].exp)
    THEN [found |-> TRUE, val |-> c[repo].val]
    ELSE [found |-> FALSE, val |-> ZeroRepoResult]

\* go-cache Set with cache.DefaultExpiration: overwrite, expiring one TTL from now
CacheSet(c, repo, val, t) ==
    LET e == [val |-> val, exp |-> t + DefaultExpiration]
    IN  IF repo \in DOMAIN c THEN [c EXCEPT ![repo] = e] ELSE c @@ (repo :> e)

\* ----------------------------------------------------------------- threads

\* a goroutine of ListArchived, or a caller of the client, about to call
\* GetRepoResult(repo)
NewThread(repo) ==
    [pc |-> "call", repo |-> repo, result |-> ZeroRepoResult,
     ret |-> ZeroRepoResult, err |-> NilErr, i |-> 0,
     ngets |-> 0, start |-> 0, end |-> 0, tmp |-> 0]

\* `return v, e` of GetRepoResult
Returned(th, v, e, t) == [th EXCEPT !.pc = "returned", !.ret = v, !.err = e, !.end = t]

\* ------------------------------------------------- Client.GetRepoResult

\* a check that stores the entry anew on a hit, so that its expiration slides
GetRepoResult_Check_Refreshes(t) ==
    /\ t \in DOMAIN threads
    /\ threads[t].pc = "call"
    /\ LET th == [threads[t] EXCEPT !.start = now, !.ngets = 0]
           repo == th.repo
           got == CacheGet(cache, repo, now)
           ownerRepo == Split(repo, Slash)
       IN  /\ lookups' = Bump(lookups, repo)
           /\ IF got.found
              THEN /\ threads' = [threads EXCEPT ![t] = Returned(th, got.val, NilErr, now)]
                   /\ cache' = CacheSet(cache, repo, got.val, now)
                   /\ gets' = gets
              ELSE IF Len(ownerRepo) # 2
              THEN /\ threads' = [threads EXCEPT ![t] =
                                     Returned(th, ZeroRepoResult, InvalidErr(repo), now)]
                   /\ UNCHANGED <<cache, gets>>
              ELSE /\ threads' = [threads EXCEPT ![t] = [th EXCEPT !.pc = "get", !.ngets = 1]]
                   /\ gets' = Bump(gets, repo)
                   /\ cache' = cache
    /\ UNCHANGED <<mainVars, printerVars, now, last>>

\* a check without the validation: every miss goes on to the remote Get
GetRepoResult_Check_NoValidation(t) ==
    /\ t \in DOMAIN threads
    /\ threads[t].pc = "call"
    /\ LET th == [threads[t] EXCEPT !.start = now, !.ngets = 0]
           repo == th.repo
           got == CacheGet(cache, repo, now)
       IN  /\ lookups' = Bump(lookups, repo)
           /\ IF got.found
              THEN /\ threads' = [threads EXCEPT ![t] = Returned(th, got.val, NilErr, now)]
                   /\ gets' = gets
              ELSE /\ threads' = [threads EXCEPT ![t] = [th EXCEPT !.pc = "get", !.ngets = 1]]
                   /\ gets' = Bump(gets, repo)
    /\ cache' = cache
    /\ UNCHANGED <<mainVars, printerVars, now, last>>

\* the cache check and, on a miss, the validation of the identity; a valid
\* identity that missed leaves the remote Get in flight
GetRepoResult_Check(t) ==
    /\ t \in DOMAIN threads
    /\ threads[t].pc = "call"
    /\ LET th == [threads[t] EXCEPT !.start = now, !.ngets = 0]
           repo == th.repo
           got == CacheGet(cache, repo, now)
           ownerRepo == Split(repo, Slash)
       IN  /\ lookups' = Bump(lookups, repo)
           /\ IF got.found
              THEN /\ threads' = [threads EXCEPT ![t] = Returned(th, got.val, NilErr, now)]
                   /\ gets' = gets
              ELSE IF Len(ownerRepo) # 2
              THEN /\ threads' = [threads EXCEPT ![t] =
                                     Returned(th, ZeroRepoResult, InvalidErr(repo), now)]
                   /\ gets' = gets
              ELSE /\ threads' = [threads EXCEPT ![t] = [th EXCEPT !.pc = "get", !.ngets = 1]]
                   /\ gets' = Bump(gets, repo)
    /\ UNCHANGED <<mainVars, printerVars, cache, now, last>>

\* a failure that is cached as a zero RepoResult
GetRepoResult_GetFails_Cached(t) ==
    /\ t \in DOMAIN threads
    /\ threads[t].pc = "get"
    /\ \E cause \in RemoteCauses :
          threads' = [threads EXCEPT ![t] =
                         Returned(@, ZeroRepoResult, FetchErr(@.repo, cause), now)]
    /\ cache' = CacheSet(cache, threads[t].repo, ZeroRepoResult, now)
    /\ UNCHANGED <<mainVars, printerVars, gets, lookups, now, last>>

\* c.client.Get(path, &result) fails
GetRepoResult_GetFails(t) ==
    /\ t \in DOMAIN threads
    /\ threads[t].pc = "get"
    /\ \E cause \in RemoteCauses :
          threads' = [threads EXCEPT ![t] =
                         Returned(@, ZeroRepoResult, FetchErr(@.repo, cause), now)]
    /\ UNCHANGED <<mainVars, printerVars, clientVars, now, last>>

\* c.client.Get(path, &result) fills result
GetRepoResult_GetSucceeds(t) ==
    /\ t \in DOMAIN threads
    /\ threads[t].pc = "get"
    /\ \E r \in RepoResults :
          threads' = [threads EXCEPT ![t] = [@ EXCEPT !.pc = "set", !.result = r]]
    /\ UNCHANGED <<mainVars, printerVars, clientVars, now, last>>

\* a Set that keeps an entry another call stored meanwhile, and returns it
GetRepoResult_Set_FirstWins(t) ==
    /\ t \in DOMAIN threads
    /\ threads[t].pc = "set"
    /\ LET got == CacheGet(cache, threads[t].repo, now)
       IN  IF got.found
           THEN /\ cache' = cache
                /\ threads' = [threads EXCEPT ![t] = Returned(@, got.val, NilErr, now)]
           ELSE /\ cache' = CacheSet(cache, threads[t].repo, threads[t].result, now)
                /\ threads' = [threads EXCEPT ![t] = Returned(@, @.result, NilErr, now)]
    /\ UNCHANGED <<mainVars, printerVars, gets, lookups, now, last>>

\* a return without the Set
GetRepoResult_Set_NotStored(t) ==
    /\ t \in DOMAIN threads
    /\ threads[t].pc = "set"
    /\ cache' = cache
    /\ threads' = [threads EXCEPT ![t] = Returned(@, @.result, NilErr, now)]
    /\ UNCHANGED <<mainVars, printerVars, gets, lookups, now, last>>

\* c.cache.Set(repo, result, cache.DefaultExpiration); return result, nil
GetRepoResult_Set(t) ==
    /\ t \in DOMAIN threads
    /\ threads[t].pc = "set"
    /\ cache' = CacheSet(cache, threads[t].repo, threads[t].result, now)
    /\ threads' = [threads EXCEPT ![t] = Returned(@, @.result, NilErr, now)]
    /\ UNCHANGED <<mainVars, printerVars, gets, lookups, now, last>>

\* ------------------------------------------------------- archivedPrinter

\* the line fmt.Printf writes, without its newline
Line(goModPath, repo, pushedAt, indirect) ==
    <<goModPath, ": https://github.com/">> \o repo
        \o <<" (last push: ", pushedAt, ")">>
        \o (IF indirect THEN <<" // indirect">> ELSE <<>>)

\* the write of fmt.Printf in archivedPrinter.Print
Print_Printf(t, info) ==
    /\ output' = Append(output,
                        Line(info.goModPath, threads[t].repo, threads[t].ret.PushedAt,
                             info.indirect))
    /\ threads' = [threads EXCEPT ![t] = [@ EXCEPT !.pc = "lock"]]

\* Print without its mutex: the counter is read whoever else is updating it
Print_Lock_NoMutex(t) ==
    /\ t \in DOMAIN threads
    /\ threads[t].pc = "lock"
    /\ mu' = mu
    /\ threads' = [threads EXCEPT ![t] = [@ EXCEPT !.pc = "incr", !.tmp = count]]
    /\ UNCHANGED <<mainVars, clientVars, now, last, output, count>>

\* ap.mu.Lock(), and the read of ap.count that starts ap.count++
Print_Lock(t) ==
    /\ t \in DOMAIN threads
    /\ threads[t].pc = "lock"
    /\ mu = <<>>
    /\ mu' = <<t>>
    /\ threads' = [threads EXCEPT ![t] = [@ EXCEPT !.pc = "incr", !.tmp = count]]
    /\ UNCHANGED <<mainVars, clientVars, now, last, output, count>>

\* Print without its increment
Print_Incr_Lost(t) ==
    /\ t \in DOMAIN threads
    /\ threads[t].pc = "incr"
    /\ count' = count
    /\ mu' = <<>>
    /\ threads' = [threads EXCEPT ![t] = [@ EXCEPT !.pc = "loop", !.i = @ + 1, !.tmp = 0]]
    /\ UNCHANGED <<mainVars, clientVars, now, last, output>>

\* the write that ends ap.count++; ap.mu.Unlock(), and Print returns into the
\* loop over infos
Print_Incr(t) ==
    /\ t \in DOMAIN threads
    /\ threads[t].pc = "incr"
    /\ count' = threads[t].tmp + 1
    /\ mu' = <<>>
    /\ threads' = [threads EXCEPT ![t] = [@ EXCEPT !.pc = "loop", !.i = @ + 1, !.tmp = 0]]
    /\ UNCHANGED <<mainVars, clientVars, now, last, output>>

\* ap.Count()
Count == count

\* ------------------------------------------------- ListArchived: extraction

\* a ListArchived that goes on after a failed walk
FindFiles_ErrIgnored ==
    /\ pc = "find"
    /\ \E ok \in BOOLEAN, n \in 0..MaxManifests :
          /\ n <= Len(ManifestNames)
          /\ files' = SubSeq(ManifestNames, 1, n)
          /\ fi' = 1
          /\ pc' = IF n = 0 THEN "check" ELSE "read"
          /\ walkErr' = ~ok
          /\ UNCHANGED <<retCount, retErr>>
    /\ UNCHANGED <<checkIndirect, ndir, repos, pending, clientCreated, wg,
                   threads, clientVars, now, last, printerVars, dir, mfs, exitCode>>

\* util.FindFiles: the walk fails, or returns the manifests it found
FindFiles ==
    /\ pc = "find"
    /\ \E ok \in BOOLEAN, n \in 0..MaxManifests :
          IF ok
          THEN /\ n <= Len(ManifestNames)
               /\ files' = SubSeq(ManifestNames, 1, n)
               /\ fi' = 1
               /\ pc' = IF n = 0 THEN "check" ELSE "read"
               /\ walkErr' = FALSE
               /\ UNCHANGED <<retCount, retErr>>
          ELSE /\ n = 0
               /\ walkErr' = TRUE
               /\ retCount' = 0
               /\ retErr' = [msg |-> "failed to find go.mod files", repo |-> <<>>,
                             cause |-> "error walking directories"]
               /\ pc' = "done"
               /\ UNCHANGED <<files, fi>>
    /\ UNCHANGED <<checkIndirect, ndir, repos, pending, clientCreated, wg,
                   threads, clientVars, now, last, printerVars, dir, mfs, exitCode>>

\* the `for _, name := range goModFileNames` loop moves to its next manifest
NextFile == IF fi + 1 > Len(files) THEN "check" ELSE "read"

\* a loop that gives up at the first manifest it cannot read or parse
ReadManifest_FailureFatal ==
    /\ pc = "read"
    /\ \E outcome \in {"read failed", "parse failed", "parsed"} :
          IF outcome = "parsed"
          THEN /\ pc' = "require"
               /\ fi' = fi
               /\ dir' = NoDirective
               /\ mfs' = Parsed(mfs, files[fi])
               /\ UNCHANGED <<retCount, retErr>>
          ELSE /\ pc' = "done"
               /\ fi' = fi + 1
               /\ dir' = [NoDirective EXCEPT !.kind = outcome, !.name = files[fi]]
               /\ UNCHANGED mfs
               /\ retCount' = 0
               /\ retErr' = [msg |-> outcome, repo |-> <<>>, cause |-> files[fi]]
    /\ UNCHANGED <<checkIndirect, files, ndir, repos, pending, clientCreated, wg,
                   threads, clientVars, now, last, printerVars, walkErr, exitCode>>

\* os.ReadFile and modfile.Parse of files[fi]: a failure of either skips the manifest
ReadManifest ==
    /\ pc = "read"
    /\ \E outcome \in {"read failed", "parse failed", "parsed"} :
          IF outcome = "parsed"
          THEN /\ pc' = "require"
               /\ fi' = fi
               /\ dir' = NoDirective
               /\ mfs' = Parsed(mfs, files[fi])
          ELSE /\ pc' = NextFile
               /\ fi' = fi + 1
               /\ dir' = [NoDirective EXCEPT !.kind = outcome, !.name = files[fi]]
               /\ UNCHANGED mfs
    /\ UNCHANGED <<checkIndirect, files, ndir, repos, pending, clientCreated, wg, retCount,
                   retErr, threads, clientVars, now, last, printerVars, walkErr, exitCode>>

\* repos[repo] = append(repos[repo], info)
AppendInfo(rs, repo, info) ==
    IF repo \in DOMAIN rs
    THEN [rs EXCEPT ![repo] = Append(@, info)]
    ELSE rs @@ (repo :> <<info>>)

\* an addDep that accepts a path of two parts, with an empty name
addDep_TwoParts(rs, name, modPath, indirect) ==
    IF ~HasPrefix(modPath, HostPrefix) THEN rs
    ELSE LET parts == Split(modPath, Slash)
         IN  IF Len(parts) < 2 THEN rs
             ELSE AppendInfo(rs, SprintfRepo(Part(parts, 1),
                                             IF Len(parts) < 3 THEN <<>> ELSE Part(parts, 2)),
                             [indirect |-> indirect, goModPath |-> name])

\* an addDep that takes its two segments one place early: host and owner
addDep_KeepsHost(rs, name, modPath, indirect) ==
    IF ~HasPrefix(modPath, HostPrefix) THEN rs
    ELSE LET parts == Split(modPath, Slash)
         IN  IF Len(parts) < 3 THEN rs
             ELSE AppendInfo(rs, SprintfRepo(Part(parts, 0), Part(parts, 1)),
                             [indirect |-> indirect, goModPath |-> name])

\* an addDep whose identity is all that follows the host
addDep_FullPath(rs, name, modPath, indirect) ==
    IF ~HasPrefix(modPath, HostPrefix) THEN rs
    ELSE LET parts == Split(modPath, Slash)
         IN  IF Len(parts) < 3 THEN rs
             ELSE AppendInfo(rs, SubSeq(modPath, 3, Len(modPath)),
                             [indirect |-> indirect, goModPath |-> name])

\* an addDep that keeps one Reference per manifest and identity
addDep_OncePerManifest(rs, name, modPath, indirect) ==
    IF ~HasPrefix(modPath, HostPrefix) THEN rs
    ELSE LET parts == Split(modPath, Slash)
         IN  IF Len(parts) < 3 THEN rs
             ELSE LET repo == SprintfRepo(Part(parts, 1), Part(parts, 2))
                      infos == IF repo \in DOMAIN rs THEN rs[repo] ELSE <<>>
                  IN  IF \E k \in 1..Len(infos) : infos[k].goModPath = name
                      THEN rs
                      ELSE AppendInfo(rs, repo, [indirect |-> indirect, goModPath |-> name])

\* the closure addDep(modPath, indirect) of the manifest `name`
addDep(rs, name, modPath, indirect) ==
    IF ~HasPrefix(modPath, HostPrefix) THEN rs
    ELSE LET parts == Split(modPath, Slash)
         IN  IF Len(parts) < 3 THEN rs
             ELSE AppendInfo(rs, SprintfRepo(Part(parts, 1), Part(parts, 2)),
                             [indirect |-> indirect, goModPath |-> name])

\* a replace that appends whether or not the manifest already has a Reference
replaceDep_AlwaysAppends(rs, name, newPath) ==
    IF ~HasPrefix(newPath, HostPrefix) THEN rs
    ELSE LET parts == Split(newPath, Slash)
         IN  IF Len(parts) < 3 THEN rs
             ELSE AppendInfo(rs, SprintfRepo(Part(parts, 1), Part(parts, 2)),
                             [indirect |-> FALSE, goModPath |-> name])

\* a replace that looks for a Reference of the identity in any manifest
replaceDep_AnyManifest(rs, name, newPath) ==
    IF ~HasPrefix(newPath, HostPrefix) THEN rs
    ELSE LET parts == Split(newPath, Slash)
         IN  IF Len(parts) < 3 THEN rs
             ELSE LET repo == SprintfRepo(Part(parts, 1), Part(parts, 2))
                      found == repo \in DOMAIN rs
                  IN  IF ~found
                      THEN AppendInfo(rs, repo, [indirect |-> FALSE, goModPath |-> name])
                      ELSE rs

\* one iteration of `for _, rep := range mf.Replace` for the target path newPath
replaceDep(rs, name, newPath) ==
    IF ~HasPrefix(newPath, HostPrefix) THEN rs
    ELSE LET parts == Split(newPath, Slash)
         IN  IF Len(parts) < 3 THEN rs
             ELSE LET repo == SprintfRepo(Part(parts, 1), Part(parts, 2))
                      infos == IF repo \in DOMAIN rs THEN rs[repo] ELSE <<>>
                      found == \E k \in 1..Len(infos) : infos[k].goModPath = name
                  IN  IF ~found
                      THEN AppendInfo(rs, repo, [indirect |-> FALSE, goModPath |-> name])
                      ELSE rs

\* one iteration of `for _, req := range mf.Require`, the requirement drawn
\* from the module paths P
RequireFrom(P) ==
    /\ pc = "require"
    /\ ndir < MaxDirectives
    /\ \E modPath \in P, indirect \in BOOLEAN :
          /\ repos' = addDep(repos, files[fi], modPath, indirect)
          /\ dir' = [kind |-> "require", path |-> modPath, indirect |-> indirect,
                     name |-> files[fi]]
          /\ mfs' = Required(mfs, files[fi], modPath, indirect)
    /\ ndir' = ndir + 1
    /\ UNCHANGED <<checkIndirect, pc, files, fi, pending, clientCreated, wg,
                   retCount, retErr, threads, clientVars, now, last, printerVars,
                   walkErr, exitCode>>

Require == RequireFrom(Paths)

\* one iteration of `for _, rep := range mf.Replace`, which starts once the
\* requirements are done, the target drawn from the module paths P
ReplaceFrom(P) ==
    /\ pc \in {"require", "replace"}
    /\ ndir < MaxDirectives
    /\ \E newPath \in P :
          /\ repos' = replaceDep(repos, files[fi], newPath)
          /\ dir' = [kind |-> "replace", path |-> newPath, indirect |-> FALSE,
                     name |-> files[fi]]
          /\ mfs' = Replaced(mfs, files[fi], newPath)
    /\ ndir' = ndir + 1
    /\ pc' = "replace"
    /\ UNCHANGED <<checkIndirect, files, fi, pending, clientCreated, wg,
                   retCount, retErr, threads, clientVars, now, last, printerVars,
                   walkErr, exitCode>>

Replace == ReplaceFrom(Paths)

\* the manifest has no further directive
EndManifest ==
    /\ pc \in {"require", "replace"}
    /\ pc' = NextFile
    /\ fi' = fi + 1
    /\ dir' = NoDirective
    /\ UNCHANGED <<checkIndirect, files, ndir, repos, pending, clientCreated, wg, retCount,
                   retErr, threads, clientVars, now, last, printerVars, walkErr, mfs,
                   exitCode>>

\* ------------------------------------------------- ListArchived: resolution

\* ListArchived without its early return on an empty map
CheckEmpty_NoEarlyReturn ==
    /\ pc = "check"
    /\ pc' = "newclient"
    /\ dir' = NoDirective
    /\ UNCHANGED mfs
    /\ UNCHANGED <<retCount, retErr>>
    /\ UNCHANGED <<checkIndirect, files, fi, ndir, repos, walkErr, exitCode, pending,
                   clientCreated, wg, threads, clientVars, now, last, printerVars>>

\* `if len(repos) == 0 { return 0, nil }`
CheckEmpty ==
    /\ pc = "check"
    /\ IF DOMAIN repos = {}
       THEN /\ retCount' = 0
            /\ retErr' = NilErr
            /\ pc' = "done"
       ELSE /\ pc' = "newclient"
            /\ UNCHANGED <<retCount, retErr>>
    /\ dir' = NoDirective
    /\ UNCHANGED mfs
    /\ UNCHANGED <<checkIndirect, files, fi, ndir, repos, walkErr, exitCode, pending,
                   clientCreated, wg, threads, clientVars, now, last, printerVars>>

\* a client that comes with the cache of an earlier call, every identity in it
NewClient_CacheKept ==
    /\ pc = "newclient"
    /\ \E ok \in BOOLEAN :
          IF ok
          THEN /\ clientCreated' = TRUE
               /\ pending' = DOMAIN repos
               /\ pc' = IF DOMAIN repos = {} THEN "wait" ELSE "range"
               /\ UNCHANGED <<retCount, retErr>>
          ELSE /\ retCount' = 0
               /\ retErr' = [msg |-> "failed to create github api client", repo |-> <<>>,
                             cause |-> "failed to create GitHub API client"]
               /\ pc' = "done"
               /\ UNCHANGED <<clientCreated, pending>>
    /\ cache' = [id \in DOMAIN repos |->
                    [val |-> [Archived |-> TRUE, PushedAt |-> "2024-01-01T00:00:00Z"],
                     exp |-> now + DefaultExpiration]]
    /\ UNCHANGED <<checkIndirect, extractVars, exitCode, wg, threads, gets, lookups, now,
                   last, printerVars>>

\* client.New(): the REST client cannot be created, or the client and its
\* empty cache exist; then `for repo, infos := range repos` starts
NewClient ==
    /\ pc = "newclient"
    /\ \E ok \in BOOLEAN :
          IF ok
          THEN /\ clientCreated' = TRUE
               /\ pending' = DOMAIN repos
               /\ pc' = IF DOMAIN repos = {} THEN "wait" ELSE "range"
               /\ UNCHANGED <<retCount, retErr>>
          ELSE /\ retCount' = 0
               /\ retErr' = [msg |-> "failed to create github api client", repo |-> <<>>,
                             cause |-> "failed to create GitHub API client"]
               /\ pc' = "done"
               /\ UNCHANGED <<clientCreated, pending>>
    /\ UNCHANGED <<checkIndirect, extractVars, exitCode, wg, threads, clientVars, now, last,
                   printerVars>>

\* the onlyIndirect flag computed by the loop over infos
OnlyIndirect(infos) == \A k \in 1..Len(infos) : infos[k].indirect

\* the policy with its flag inverted
Skips_FlagInverted(check, infos) == check /\ OnlyIndirect(infos)

\* `if !checkIndirect { ... if onlyIndirect { continue } }`
Skips(check, infos) == ~check /\ OnlyIndirect(infos)

\* one iteration of `for repo, infos := range repos`, in the map's order:
\* skip the identity, or wg.Add(1) and start its goroutine
Range(repo) ==
    /\ pc = "range"
    /\ repo \in pending
    /\ pending' = pending \ {repo}
    /\ pc' = IF pending' = {} THEN "wait" ELSE "range"
    /\ IF Skips(checkIndirect, repos[repo])
       THEN UNCHANGED <<wg, threads>>
       ELSE /\ wg' = wg + 1
            /\ threads' = threads @@ (repo :> NewThread(repo))
    /\ UNCHANGED <<checkIndirect, extractVars, exitCode, clientCreated, retCount, retErr,
                   clientVars, now, last, printerVars>>

\* `defer wg.Done()` runs as the goroutine returns
Done(th) == [th EXCEPT !.pc = "done"]

\* a goroutine whose return on an error does not run wg.Done()
AfterLookup_NoDoneOnError(t) ==
    /\ pc \in {"range", "wait"}
    /\ t \in DOMAIN threads
    /\ threads[t].pc = "returned"
    /\ IF threads[t].err # NilErr
       THEN /\ threads' = [threads EXCEPT ![t] = Done(@)]
            /\ wg' = wg
       ELSE IF ~threads[t].ret.Archived
       THEN /\ threads' = [threads EXCEPT ![t] = Done(@)]
            /\ wg' = wg - 1
       ELSE /\ threads' = [threads EXCEPT ![t] = [@ EXCEPT !.pc = "loop", !.i = 0]]
            /\ wg' = wg
    /\ UNCHANGED <<checkIndirect, pc, extractVars, exitCode, pending, clientCreated, retCount,
                   retErr, clientVars, now, last, printerVars>>

\* a goroutine that calls GetRepoResult again after an error
AfterLookup_Retries(t) ==
    /\ pc \in {"range", "wait"}
    /\ t \in DOMAIN threads
    /\ threads[t].pc = "returned"
    /\ IF threads[t].err # NilErr
       THEN /\ threads' = [threads EXCEPT ![t] = [@ EXCEPT !.pc = "call", !.err = NilErr]]
            /\ wg' = wg
       ELSE IF ~threads[t].ret.Archived
       THEN /\ threads' = [threads EXCEPT ![t] = Done(@)]
            /\ wg' = wg - 1
       ELSE /\ threads' = [threads EXCEPT ![t] = [@ EXCEPT !.pc = "loop", !.i = 0]]
            /\ wg' = wg
    /\ UNCHANGED <<checkIndirect, pc, extractVars, exitCode, pending, clientCreated, retCount,
                   retErr, clientVars, now, last, printerVars>>

\* the goroutine with its error check inverted
AfterLookup_ErrInverted(t) ==
    /\ pc \in {"range", "wait"}
    /\ t \in DOMAIN threads
    /\ threads[t].pc = "returned"
    /\ IF threads[t].err = NilErr \/ ~threads[t].ret.Archived
       THEN /\ threads' = [threads EXCEPT ![t] = Done(@)]
            /\ wg' = wg - 1
       ELSE /\ threads' = [threads EXCEPT ![t] = [@ EXCEPT !.pc = "loop", !.i = 0]]
            /\ wg' = wg
    /\ UNCHANGED <<checkIndirect, pc, extractVars, exitCode, pending, clientCreated, retCount,
                   retErr, clientVars, now, last, printerVars>>

\* the goroutine after `result, err := client.GetRepoResult(repo)`
AfterLookup(t) ==
    /\ pc \in {"range", "wait"}
    /\ t \in DOMAIN threads
    /\ threads[t].pc = "returned"
    /\ IF threads[t].err # NilErr \/ ~threads[t].ret.Archived
       THEN /\ threads' = [threads EXCEPT ![t] = Done(@)]
            /\ wg' = wg - 1
       ELSE /\ threads' = [threads EXCEPT ![t] = [@ EXCEPT !.pc = "loop", !.i = 0]]
            /\ wg' = wg
    /\ UNCHANGED <<checkIndirect, pc, extractVars, exitCode, pending, clientCreated, retCount,
                   retErr, clientVars, now, last, printerVars>>

\* the loop without its `continue`
Suppressed_Never(check, info) == FALSE

\* a loop that leaves out the indirect References when indirects are asked for
Suppressed_WhenIncluded(check, info) == check /\ info.indirect

\* `if !checkIndirect && info.indirect { continue }`
Suppressed(check, info) == ~check /\ info.indirect

\* a loop over infos that runs from the last Reference to the first
Loop_Backwards(t) ==
    /\ pc \in {"range", "wait"}
    /\ t \in DOMAIN threads
    /\ threads[t].pc = "loop"
    /\ LET infos == repos[threads[t].repo]
           i == threads[t].i
       IN  IF i >= Len(infos)
           THEN /\ threads' = [threads EXCEPT ![t] = Done(@)]
                /\ wg' = wg - 1
                /\ UNCHANGED output
           ELSE IF Suppressed(checkIndirect, infos[Len(infos) - i])
           THEN /\ threads' = [threads EXCEPT ![t] = [@ EXCEPT !.i = @ + 1]]
                /\ UNCHANGED <<wg, output>>
           ELSE /\ Print_Printf(t, infos[Len(infos) - i])
                /\ UNCHANGED wg
    /\ UNCHANGED <<checkIndirect, pc, extractVars, exitCode, pending, clientCreated, retCount,
                   retErr, clientVars, now, last, count, mu>>

\* the top of `for _, info := range infos`: the loop ends, skips the
\* Reference, or enters ap.Print and writes its line
Loop(t) ==
    /\ pc \in {"range", "wait"}
    /\ t \in DOMAIN threads
    /\ threads[t].pc = "loop"
    /\ LET infos == repos[threads[t].repo]
           i == threads[t].i
       IN  IF i >= Len(infos)
           THEN /\ threads' = [threads EXCEPT ![t] = Done(@)]
                /\ wg' = wg - 1
                /\ UNCHANGED output
           ELSE IF Suppressed(checkIndirect, infos[i + 1])
           THEN /\ threads' = [threads EXCEPT ![t] = [@ EXCEPT !.i = @ + 1]]
                /\ UNCHANGED <<wg, output>>
           ELSE /\ Print_Printf(t, infos[i + 1])
                /\ UNCHANGED wg
    /\ UNCHANGED <<checkIndirect, pc, extractVars, exitCode, pending, clientCreated, retCount,
                   retErr, clientVars, now, last, count, mu>>

\* ListArchived without wg.Wait()
WaitDone_NoBarrier == TRUE

\* wg.Wait() lets ListArchived go on once the counter is zero
WaitDone == wg = 0

\* wg.Wait(); return ap.Count(), nil
Return ==
    /\ pc = "wait"
    /\ WaitDone
    /\ mu = <<>>
    /\ retCount' = Count
    /\ retErr' = NilErr
    /\ pc' = "done"
    /\ UNCHANGED <<checkIndirect, extractVars, exitCode, pending, clientCreated, wg, threads,
                   clientVars, now, last, printerVars>>

\* main: the gomod command's Action and the process's exit. An error of
\* ListArchived is returned, printed and followed by os.Exit(1); a count above
\* zero gives cli.Exit("", 1); otherwise the process ends with code 0
\* an exit code that looks at the count alone
ExitCode_CountOnly(n, err) == IF n > 0 THEN 1 ELSE 0

\* the exit code main and the Action give ListArchived's (count, err)
ExitCode(n, err) == IF err # NilErr THEN 1 ELSE IF n > 0 THEN 1 ELSE 0

Exit ==
    /\ pc = "done"
    /\ pc' = "exited"
    /\ exitCode' = ExitCode(retCount, retErr)
    /\ UNCHANGED <<checkIndirect, files, fi, ndir, repos, walkErr, dir, mfs, pending,
                   clientCreated, wg, retCount, retErr, threads, clientVars, now, last,
                   printerVars>>

\* ------------------------------ ListArchived as a function of its inputs

\* `for _, req := range mf.Require { addDep(req.Mod.Path, req.Indirect) }`
RECURSIVE RequireAll(_, _, _)
RequireAll(rs, name, reqs) ==
    IF reqs = <<>> THEN rs
    ELSE RequireAll(addDep(rs, name, Head(reqs).path, Head(reqs).indirect),
                    name, Tail(reqs))

\* `for _, rep := range mf.Replace { ... }`
RECURSIVE ReplaceAll(_, _, _)
ReplaceAll(rs, name, reps) ==
    IF reps = <<>> THEN rs
    ELSE ReplaceAll(replaceDep(rs, name, Head(reps)), name, Tail(reps))

\* `for _, name := range goModFileNames { ... }` from the index rs on, h
\* holding the manifests that can be read and parsed
RECURSIVE ExtractAll(_, _, _)
ExtractAll(rs, names, h) ==
    IF names = <<>> THEN rs
    ELSE LET name == Head(names)
             next == IF name \in DOMAIN h
                     THEN ReplaceAll(RequireAll(rs, name, h[name].Require),
                                     name, h[name].Replace)
                     ELSE rs
         IN  ExtractAll(next, Tail(names), h)

\* what GetRepoResult can return for an identity: a result, or an error
Answers ==
    {[ok |-> TRUE, result |-> r] : r \in RepoResults}
        \cup {[ok |-> FALSE, result |-> ZeroRepoResult]}

\* `for _, info := range infos { ... ap.Print(...) }`
RECURSIVE PrintAll(_, _, _, _)
PrintAll(check, infos, repo, pushedAt) ==
    IF infos = <<>> THEN <<>>
    ELSE (IF Suppressed(check, Head(infos)) THEN <<>>
          ELSE <<Line(Head(infos).goModPath, repo, pushedAt, Head(infos).indirect)>>)
         \o PrintAll(check, Tail(infos), repo, pushedAt)

\* the lines of the goroutine of repo, given the answer to its lookup
Goroutine(check, repo, infos, answer) ==
    IF ~answer.ok \/ ~answer.result.Archived THEN <<>>
    ELSE PrintAll(check, infos, repo, answer.result.PushedAt)

\* the identities `for repo, infos := range repos` starts a goroutine for
Launched(check, rs) == {repo \in DOMAIN rs : ~Skips(check, rs[repo])}

\* the lines of the goroutines of ids, in one of the orders they can run in
RECURSIVE RunAll(_, _, _, _)
RunAll(check, rs, ids, answers) ==
    IF ids = {} THEN <<>>
    ELSE LET repo == CHOOSE r \in ids : TRUE
         IN  Goroutine(check, repo, rs[repo], answers[repo])
                 \o RunAll(check, rs, ids \ {repo}, answers)

\* the lines as a multiset
BagOfLines(lines) ==
    [l \in {lines[k] : k \in 1..Len(lines)} |->
        Cardinality({k \in 1..Len(lines) : lines[k] = l})]

\* ListArchived from the index rs on: what it looks up, prints and returns
Resolve(check, rs, answers) ==
    LET lines == RunAll(check, rs, Launched(check, rs), answers)
    IN  [lookedUp |-> Launched(check, rs),
         lines    |-> BagOfLines(lines),
         count    |-> Len(lines)]

\* ---------------------------------------------------------- specification

Init ==
    /\ checkIndirect \in BOOLEAN
    /\ pc = "find"
    /\ files = <<>>
    /\ fi = 1
    /\ ndir = 0
    /\ repos = EmptyMap
    /\ pending = {}
    /\ clientCreated = FALSE
    /\ wg = 0
    /\ retCount = 0
    /\ retErr = NilErr
    /\ threads = EmptyMap
    /\ cache = EmptyMap
    /\ now = 0
    /\ gets = EmptyMap
    /\ lookups = EmptyMap
    /\ output = <<>>
    /\ count = 0
    /\ mu = <<>>
    /\ last = EmptyMap
    /\ walkErr = FALSE
    /\ dir = NoDirective
    /\ mfs = NotRecorded
    /\ exitCode = -1

\* the identities extraction can produce
Identities ==
    { SprintfRepo(Part(Split(p, Slash), 1), Part(Split(p, Slash), 2)) :
        p \in { q \in Paths : HasPrefix(q, HostPrefix) /\ Len(Split(q, Slash)) >= 3 } }

Next ==
    \/ FindFiles
    \/ ReadManifest
    \/ Require
    \/ Replace
    \/ EndManifest
    \/ CheckEmpty
    \/ NewClient
    \/ \E repo \in Identities : Range(repo)
    \/ \E t \in Identities : GetRepoResult_Check(t)
    \/ \E t \in Identities : GetRepoResult_GetFails(t)
    \/ \E t \in Identities : GetRepoResult_GetSucceeds(t)
    \/ \E t \in Identities : GetRepoResult_Set(t)
    \/ \E t \in Identities : AfterLookup(t)
    \/ \E t \in Identities : Loop(t)
    \/ \E t \in Identities : Print_Lock(t)
    \/ \E t \in Identities : Print_Incr(t)
    \/ Return
    \/ Exit

Spec == Init /\ [][Next]_vars

\* ------------------------------------------------------- fair scheduling

\* the module paths of the runs checked under fair scheduling: one path of
\* each identity
LivePaths ==
    { <<Host, Slash, "x", Slash, "y">>,
      <<Host, Slash, "a", Slash, "b">> }

\* the steps of the goroutine that runs main and ListArchived
MainNext ==
    \/ FindFiles
    \/ ReadManifest
    \/ RequireFrom(LivePaths)
    \/ ReplaceFrom(LivePaths)
    \/ EndManifest
    \/ CheckEmpty
    \/ NewClient
    \/ \E repo \in Identities : Range(repo)
    \/ Return
    \/ Exit

\* the steps of the goroutine of an identity that are its own: all but the
\* return of the remote Get, which is the remote side's
Local(t) ==
    \/ GetRepoResult_Check(t)
    \/ GetRepoResult_Set(t)
    \/ AfterLookup(t)
    \/ Loop(t)
    \/ Print_Lock(t)
    \/ Print_Incr(t)

\* the runs checked under fair scheduling stay within their own bounds
LiveBound == Len(files') <= LiveManifests /\ ndir' <= LiveDirectives

LiveNext ==
    /\ \/ MainNext
       \/ \E t \in Identities : Local(t)
       \/ \E t \in Identities : GetRepoResult_GetFails(t)
       \/ \E t \in Identities : GetRepoResult_GetSucceeds(t)
    /\ LiveBound

\* ListArchived under the Go scheduler: a goroutine that can run does run.
\* Nothing is assumed of the remote side.
LiveSpec ==
    /\ Init
    /\ [][LiveNext]_vars
    /\ WF_vars(MainNext /\ LiveBound)
    /\ \A t \in Identities : WF_vars(Local(t))

\* ------------------------------------------------ the extraction loop alone

\* the module paths of Paths, and one whose owner segment is the host's name
ExtractPaths == Paths \cup { <<Host, Slash, Host, Slash, "x">> }

\* ListArchived up to the end of its loop over the manifests, the directives
\* drawn from ExtractPaths
ExtractNext ==
    \/ FindFiles
    \/ ReadManifest
    \/ RequireFrom(ExtractPaths)
    \/ ReplaceFrom(ExtractPaths)
    \/ EndManifest
    \/ CheckEmpty

ExtractSpec == Init /\ [][ExtractNext]_vars

\* the extraction loop in runs that record the manifests they parse
RecordedInit ==
    /\ checkIndirect \in BOOLEAN
    /\ pc = "find"
    /\ files = <<>>
    /\ fi = 1
    /\ ndir = 0
    /\ repos = EmptyMap
    /\ pending = {}
    /\ clientCreated = FALSE
    /\ wg = 0
    /\ retCount = 0
    /\ retErr = NilErr
    /\ threads = EmptyMap
    /\ cache = EmptyMap
    /\ now = 0
    /\ gets = EmptyMap
    /\ lookups = EmptyMap
    /\ output = <<>>
    /\ count = 0
    /\ mu = <<>>
    /\ last = EmptyMap
    /\ walkErr = FALSE
    /\ dir = NoDirective
    /\ mfs = EmptyMap
    /\ exitCode = -1

RecordedBound == Len(files') <= RecordedManifests /\ ndir' <= RecordedDirectives

\* the module paths of the recorded runs: two of one repository, one of
\* another, one of another host
RecordedPaths ==
    { <<Host, Slash, "x", Slash, "y">>,
      <<Host, Slash, "x", Slash, "y", Slash, "v2">>,
      <<Host, Slash, "a", Slash, "b">>,
      <<"golang.org", Slash, "x", Slash, "tools">> }

RecordedNext ==
    /\ \/ FindFiles
       \/ ReadManifest
       \/ RequireFrom(RecordedPaths)
       \/ ReplaceFrom(RecordedPaths)
       \/ EndManifest
       \/ CheckEmpty
    /\ RecordedBound

RecordedSpec == RecordedInit /\ [][RecordedNext]_vars

\* ------------------------------------------ the client on its own (its tests)

\* the callers of the client harness
Callers == {<<"caller1">>}

\* the identities the harness passes to GetRepoResult
ClientRepos == Identities \cup {<<"invalidrepo">>, <<"a", Slash, "b", Slash, "c">>}

RECURSIVE Total(_)
Total(f) ==
    IF DOMAIN f = {} THEN 0
    ELSE LET k == CHOOSE x \in DOMAIN f : TRUE
         IN  f[k] + Total([x \in DOMAIN f \ {k} |-> f[x]])

Idle == [NewThread(<<>>) EXCEPT !.pc = "idle"]

\* c := NewWithClient(...): a client with an empty cache, and callers at rest
ClientInit ==
    /\ checkIndirect = FALSE
    /\ pc = "client"
    /\ files = <<>>
    /\ fi = 1
    /\ ndir = 0
    /\ repos = EmptyMap
    /\ pending = {}
    /\ clientCreated = TRUE
    /\ wg = 0
    /\ retCount = 0
    /\ retErr = NilErr
    /\ threads = [t \in Callers |-> Idle]
    /\ cache = EmptyMap
    /\ now = 0
    /\ gets = EmptyMap
    /\ lookups = EmptyMap
    /\ output = <<>>
    /\ count = 0
    /\ mu = <<>>
    /\ last = EmptyMap
    /\ walkErr = FALSE
    /\ dir = NoDirective
    /\ mfs = NotRecorded
    /\ exitCode = -1

\* a caller calls c.GetRepoResult(repo)
Call(t, repo) ==
    /\ pc = "client"
    /\ threads[t].pc = "idle"
    /\ Total(lookups) < MaxCalls
    /\ threads' = [threads EXCEPT ![t] = NewThread(repo)]
    /\ UNCHANGED <<mainVars, printerVars, clientVars, now, last>>

\* the caller takes the returned (RepoResult, error); the harness keeps them,
\* with the expiration of the identity's cache entry, as the identity's last call
Observe(t) ==
    /\ pc = "client"
    /\ threads[t].pc = "returned"
    /\ LET th == threads[t]
           rec == [ret |-> th.ret, err |-> th.err, ngets |-> th.ngets, end |-> th.end,
                   exp |-> IF th.repo \in DOMAIN cache THEN cache[th.repo].exp ELSE -1]
       IN  last' = IF th.repo \in DOMAIN last
                   THEN [last EXCEPT ![th.repo] = rec]
                   ELSE last @@ (th.repo :> rec)
    /\ threads' = [threads EXCEPT ![t] = Idle]
    /\ UNCHANGED <<mainVars, printerVars, clientVars, now>>

\* time passes; ListArchived is modelled at one instant, since the passing
\* of time can only take entries out of the cache's view
Tick ==
    /\ pc = "client"
    /\ now < MaxTime
    /\ now' = now + 1
    /\ UNCHANGED <<mainVars, printerVars, clientVars, threads, last>>

ClientNext ==
    \/ \E t \in Callers, repo \in ClientRepos : Call(t, repo)
    \/ \E t \in Callers : GetRepoResult_Check(t)
    \/ \E t \in Callers : GetRepoResult_GetFails(t)
    \/ \E t \in Callers : GetRepoResult_GetSucceeds(t)
    \/ \E t \in Callers : GetRepoResult_Set(t)
    \/ \E t \in Callers : Observe(t)
    \/ Tick

ClientSpec == ClientInit /\ [][ClientNext]_vars

\* ------------------------------------------------- concurrent callers

\* two goroutines that share one client
ConcurrentCallers == {<<"caller1">>, <<"caller2">>}

\* c := NewWithClient(...), and both callers at rest
ConcurrentInit ==
    /\ checkIndirect = FALSE
    /\ pc = "client"
    /\ files = <<>>
    /\ fi = 1
    /\ ndir = 0
    /\ repos = EmptyMap
    /\ pending = {}
    /\ clientCreated = TRUE
    /\ wg = 0
    /\ retCount = 0
    /\ retErr = NilErr
    /\ threads = [t \in ConcurrentCallers |-> Idle]
    /\ cache = EmptyMap
    /\ now = 0
    /\ gets = EmptyMap
    /\ lookups = EmptyMap
    /\ output = <<>>
    /\ count = 0
    /\ mu = <<>>
    /\ last = EmptyMap
    /\ walkErr = FALSE
    /\ dir = NoDirective
    /\ mfs = NotRecorded
    /\ exitCode = -1

\* the callers call GetRepoResult at any time, each step of a call
\* interleaved with the steps of the other caller's call
ConcurrentNext ==
    \/ \E t \in ConcurrentCallers, repo \in ClientRepos : Call(t, repo)
    \/ \E t \in ConcurrentCallers : GetRepoResult_Check(t)
    \/ \E t \in ConcurrentCallers : GetRepoResult_GetFails(t)
    \/ \E t \in ConcurrentCallers : GetRepoResult_GetSucceeds(t)
    \/ \E t \in ConcurrentCallers : GetRepoResult_Set(t)
    \/ \E t \in ConcurrentCallers : Observe(t)

ConcurrentSpec == ConcurrentInit /\ [][ConcurrentNext]_vars

\* ---------------------------------------------------------------- helpers

\* the References of an identity that a run prints when the identity is archived
Reported(check, infos) ==
    { k \in 1..Len(infos) : check \/ ~infos[k].indirect }

\* the positions of the output whose line is `line`
Printed(line) == { k \in 1..Len(output) : output[k] = line }

\* every line that can name the identity `repo`
LinesOf(repo) ==
    { Line(ManifestNames[m], repo, p, ind) :
        m \in 1..Len(ManifestNames), p \in PushedAts \cup {""}, ind \in BOOLEAN }

\* the positions of the output whose line names the identity `repo`
PrintedFor(repo) == { k \in 1..Len(output) : output[k] \in LinesOf(repo) }

\* the lookup of the identity returned a result, which says archived
LookedUpArchived(repo) ==
    /\ repo \in DOMAIN threads
    /\ threads[repo].pc \in {"returned", "loop", "lock", "incr", "done"}
    /\ threads[repo].err = NilErr
    /\ threads[repo].ret.Archived

HasDirect(infos) == \E k \in 1..Len(infos) : ~infos[k].indirect

HasIndirect(infos) == \E k \in 1..Len(infos) : infos[k].indirect

\* the output holds, for the identity, exactly one line per reported Reference
\* (as many equal lines as there are equal reported References) and no other
ReportedExactly(repo) ==
    LET infos == repos[repo]
        th == threads[repo]
        lineOf(k) == Line(infos[k].goModPath, repo, th.ret.PushedAt, infos[k].indirect)
    IN  /\ \A k \in Reported(checkIndirect, infos) :
              Cardinality(Printed(lineOf(k))) =
                  Cardinality({ j \in Reported(checkIndirect, infos) : lineOf(j) = lineOf(k) })
        /\ \A j \in PrintedFor(repo) :
              \E k \in Reported(checkIndirect, infos) : output[j] = lineOf(k)

\* ------------------------------------------------------------------ claims

\* C1: with includeIndirect=false, an identity whose References are all
\* indirect is never looked up (no GetRepoResult call, no remote Get) and no
\* output line names it.
C1_OnlyIndirectNeverLookedUp ==
    ~checkIndirect =>
        \A repo \in DOMAIN repos :
            ~HasDirect(repos[repo]) =>
                /\ repo \notin DOMAIN threads
                /\ At(lookups, repo) = 0
                /\ At(gets, repo) = 0
                /\ PrintedFor(repo) = {}

\* a run with includeIndirect=false has ended: one identity was only indirect,
\* another was looked up and printed
C1_Witness ==
    /\ pc = "done"
    /\ ~checkIndirect
    /\ \E repo \in DOMAIN repos : ~HasDirect(repos[repo])
    /\ Len(output) > 0

\* C2: with includeIndirect=false, an identity with a direct and an indirect
\* Reference is looked up exactly once when the run has returned, never more
\* than once before, and if the lookup says archived the output holds a line
\* for each of its direct References and none for its indirect ones.
C2_MixedLookedUpOnceDirectOnly ==
    ~checkIndirect =>
        \A repo \in DOMAIN repos :
            HasDirect(repos[repo]) /\ HasIndirect(repos[repo]) =>
                /\ At(lookups, repo) <= 1
                /\ At(gets, repo) <= 1
                /\ pc = "done" /\ clientCreated =>
                      /\ At(lookups, repo) = 1
                      /\ At(gets, repo) = 1
                      /\ LookedUpArchived(repo) =>
                            /\ ReportedExactly(repo)
                            /\ \A j \in PrintedFor(repo) : " // indirect" \notin
                                   { output[j][n] : n \in 1..Len(output[j]) }
                            /\ Cardinality(PrintedFor(repo)) =
                                  Cardinality({ k \in 1..Len(repos[repo]) :
                                                  ~repos[repo][k].indirect })

\* a run with includeIndirect=false has ended and printed an archived identity
\* that has a direct and an indirect Reference
C2_Witness ==
    /\ pc = "done"
    /\ ~checkIndirect
    /\ \E repo \in DOMAIN repos :
          /\ HasDirect(repos[repo])
          /\ HasIndirect(repos[repo])
          /\ LookedUpArchived(repo)
          /\ PrintedFor(repo) # {}

\* the References a finished run reports: those of the identities looked up
\* with success and archived, less the suppressed ones
ReportedReferences ==
    { <<repo, k>> \in UNION { {repo} \X (1..Len(repos[repo])) : repo \in DOMAIN repos } :
        /\ LookedUpArchived(repo)
        /\ k \in Reported(checkIndirect, repos[repo]) }

\* C3: the count ListArchived returns is the number of lines printed, which
\* is the number of References whose identity was looked up with success and
\* archived and which are direct or printed under includeIndirect=true.
C3_CountIsLinesIsReferences ==
    pc = "done" =>
        /\ retCount = Len(output)
        /\ Len(output) = Cardinality(ReportedReferences)

\* the spec's scenario under includeIndirect=true: a/go.mod requires the
\* identity directly, b/go.mod indirectly, it is archived, and the count is 2
C3_Witness ==
    /\ pc = "done"
    /\ checkIndirect
    /\ retCount = 2
    /\ \E repo \in DOMAIN repos :
          /\ repos[repo] = << [indirect |-> FALSE, goModPath |-> "a/go.mod"],
                              [indirect |-> TRUE, goModPath |-> "b/go.mod"] >>
          /\ LookedUpArchived(repo)

\* FindFiles succeeded
Located == retErr.msg # "failed to find go.mod files"

\* C4: when the located manifests give an empty DependencyIndex, ListArchived
\* returns (0, nil), never creates the client and issues no remote call.
C4_EmptyIndexNoClient ==
    pc = "done" /\ Located /\ DOMAIN repos = {} =>
        /\ retCount = 0
        /\ retErr = NilErr
        /\ ~clientCreated
        /\ DOMAIN gets = {}
        /\ DOMAIN lookups = {}
        /\ DOMAIN threads = {}

\* a run over manifests whose directives name no github.com repository has ended
C4_Witness ==
    /\ pc = "done"
    /\ DOMAIN repos = {}
    /\ Len(files) > 0
    /\ ndir > 0

\* the lookup of the identity failed
LookupFailed(repo) ==
    /\ repo \in DOMAIN threads
    /\ threads[repo].pc \in {"returned", "done"}
    /\ threads[repo].err # NilErr

\* C5: a failed lookup changes nothing for the other identities: the run
\* returns a nil error, prints exactly the non-suppressed References of the
\* identities looked up with success and archived, prints nothing for the
\* failed ones, and counts exactly the lines printed.
C5_FailuresAreContained ==
    pc = "done" /\ clientCreated =>
        /\ retErr = NilErr
        /\ \A repo \in DOMAIN threads :
              IF LookedUpArchived(repo)
              THEN ReportedExactly(repo)
              ELSE PrintedFor(repo) = {}
        /\ retCount = Cardinality(UNION { PrintedFor(repo) : repo \in DOMAIN threads })
        /\ retCount = Len(output)

\* a run has ended in which one lookup failed and another identity was reported
C5_Witness ==
    /\ pc = "done"
    /\ \E bad \in DOMAIN threads, good \in DOMAIN threads :
          /\ LookupFailed(bad)
          /\ LookedUpArchived(good)
          /\ PrintedFor(good) # {}

\* C6: when ListArchived returns, every identity the policy accepts has a
\* goroutine, every goroutine has finished, and the returned count is the
\* counter after every Print.
C6_Barrier ==
    pc = "done" /\ clientCreated =>
        /\ \A repo \in DOMAIN repos :
              checkIndirect \/ HasDirect(repos[repo]) => repo \in DOMAIN threads
        /\ \A t \in DOMAIN threads : threads[t].pc = "done"
        /\ wg = 0
        /\ retCount = count
        /\ count = Len(output)

\* a run has returned after two goroutines printed
C6_Witness ==
    /\ pc = "done"
    /\ Cardinality(DOMAIN threads) >= 2
    /\ \A t \in DOMAIN threads : PrintedFor(t) # {}
    /\ retCount >= 2

\* a caller's call has returned and the harness holds an earlier call for the
\* same identity
SecondCall(t) ==
    /\ threads[t].pc = "returned"
    /\ threads[t].repo \in DOMAIN last

\* C7 as stated: two calls for the same identity within the cache TTL issue
\* at most one remote Get in total, and the second returns what the first did.
C7_TwiceWithinTTL_AsStated ==
    \A t \in DOMAIN threads :
        SecondCall(t) /\ threads[t].start - last[threads[t].repo].end <= DefaultExpiration =>
            /\ last[threads[t].repo].ngets + threads[t].ngets <= 1
            /\ threads[t].ret = last[threads[t].repo].ret
            /\ threads[t].err = last[threads[t].repo].err

\* C7 amended: when the first of two successive calls for an identity succeeds
\* and the second is made before the cache entry the first stored or read has
\* expired, the second issues no remote Get (so the two issue at most one) and
\* returns the first call's result with a nil error.
C7_TwiceWithinTTL ==
    \A t \in DOMAIN threads :
        /\ SecondCall(t)
        /\ last[threads[t].repo].err = NilErr
        /\ threads[t].start <= last[threads[t].repo].exp
        => /\ threads[t].ngets = 0
           /\ last[threads[t].repo].ngets + threads[t].ngets <= 1
           /\ threads[t].ret = last[threads[t].repo].ret
           /\ threads[t].err = NilErr

\* a second call returned from the cache what the first call had fetched
C7_Witness ==
    \E t \in DOMAIN threads :
        /\ SecondCall(t)
        /\ last[threads[t].repo].err = NilErr
        /\ last[threads[t].repo].ngets = 1
        /\ threads[t].start <= last[threads[t].repo].exp
        /\ threads[t].ngets = 0
        /\ threads[t].ret.Archived

\* the step of thread t in which its remote Get fails
GetFailsStep(t) ==
    /\ threads[t].pc = "get"
    /\ threads'[t].pc = "returned"

\* C8: a failed remote Get makes GetRepoResult return a zero RepoResult and an
\* error that wraps the cause, and leaves the cache as it was, without an
\* entry the identity could be served from; the next call for the identity
\* issues a remote Get again.
C8_FailureNotCached ==
    /\ [][\A t \in DOMAIN threads :
            GetFailsStep(t) =>
                /\ threads'[t].ret = ZeroRepoResult
                /\ \E cause \in RemoteCauses :
                      threads'[t].err = FetchErr(threads[t].repo, cause)
                /\ cache' = cache
                /\ ~(threads[t].repo \in DOMAIN cache'
                       /\ now' <= cache'[threads[t].repo].exp)]_vars
    /\ [](\A t \in DOMAIN threads :
            /\ threads[t].pc \in {"get", "set", "returned"}
            /\ threads[t].repo \in DOMAIN last
            /\ last[threads[t].repo].err.msg = "failed to fetch repo"
            => threads[t].ngets = 1)

\* after a call whose remote Get failed, the next call for the identity has
\* its own remote Get in flight
C8_Witness ==
    \E t \in DOMAIN threads :
        /\ threads[t].pc = "get"
        /\ threads[t].repo \in DOMAIN last
        /\ last[threads[t].repo].err.msg = "failed to fetch repo"
        /\ last[threads[t].repo].ret = ZeroRepoResult

\* the step of thread t in which it returns what its remote Get fetched
SetStep(t) ==
    /\ threads[t].pc = "set"
    /\ threads'[t].pc = "returned"

\* C9: a call whose remote Get succeeded returns the fetched RepoResult with a
\* nil error, and as it returns the cache holds a live entry for the identity
\* equal to the returned value.
C9_SuccessIsCached ==
    [][\A t \in DOMAIN threads :
          SetStep(t) =>
              /\ threads'[t].ret = threads[t].result
              /\ threads'[t].err = NilErr
              /\ threads[t].repo \in DOMAIN cache'
              /\ cache'[threads[t].repo].val = threads'[t].ret
              /\ now' <= cache'[threads[t].repo].exp
              /\ \A r \in DOMAIN cache : r # threads[t].repo =>
                     r \in DOMAIN cache' /\ cache'[r] = cache[r]]_vars

\* a call has returned an archived result it fetched, and the cache holds it
C9_Witness ==
    \E t \in DOMAIN threads :
        /\ pc = "client"
        /\ threads[t].pc = "returned"
        /\ threads[t].ngets = 1
        /\ threads[t].err = NilErr
        /\ threads[t].ret.Archived
        /\ threads[t].repo \in DOMAIN cache
        /\ cache[threads[t].repo].val = threads[t].ret

\* the cache holds an entry for the identity that has not expired
Live(repo) == repo \in DOMAIN cache /\ now <= cache[repo].exp

\* the step of thread t in which GetRepoResult checks the cache
CheckStep(t) ==
    /\ threads[t].pc = "call"
    /\ threads'[t].pc # "call"

\* C10: when the cache holds an entry for the identity, GetRepoResult returns
\* the cached RepoResult with a nil error at once, issues no remote Get and
\* leaves the cache as it was.
C10_HitReturnsCached ==
    [][\A t \in DOMAIN threads :
          CheckStep(t) /\ Live(threads[t].repo) =>
              /\ threads'[t].pc = "returned"
              /\ threads'[t].ret = cache[threads[t].repo].val
              /\ threads'[t].err = NilErr
              /\ threads'[t].ngets = 0
              /\ gets' = gets
              /\ cache' = cache]_vars

\* a call has returned an archived result straight from the cache
C10_Witness ==
    \E t \in DOMAIN threads :
        /\ pc = "client"
        /\ threads[t].pc = "returned"
        /\ threads[t].ngets = 0
        /\ threads[t].err = NilErr
        /\ threads[t].ret.Archived
        /\ Live(threads[t].repo)
        /\ cache[threads[t].repo].val = threads[t].ret

\* ------------------------------------------------------------------- C11

\* the number of '/' separators of an identity string
Slashes(repo) == Cardinality({k \in 1..Len(repo) : repo[k] = Slash})

\* the identity has exactly two slash-separated segments
TwoSegments(repo) == Slashes(repo) = 1

\* C11: on a cache miss for an identity that does not consist of exactly two
\* slash-separated segments, GetRepoResult returns a zero RepoResult and an
\* error at once, issues no remote Get and leaves the cache as it was.
C11_InvalidIdentityRejected ==
    [][\A t \in DOMAIN threads :
          CheckStep(t) /\ ~Live(threads[t].repo) /\ ~TwoSegments(threads[t].repo) =>
              /\ threads'[t].pc = "returned"
              /\ threads'[t].ret = ZeroRepoResult
              /\ threads'[t].err # NilErr
              /\ threads'[t].err.msg = "invalid repo"
              /\ threads'[t].ngets = 0
              /\ gets' = gets
              /\ cache' = cache]_vars

\* calls for an identity of one segment and for one of three segments have
\* both been rejected, the second while the cache holds another identity
C11_Witness ==
    /\ pc = "client"
    /\ <<"invalidrepo">> \in DOMAIN last
    /\ last[<<"invalidrepo">>].err.msg = "invalid repo"
    /\ \E t \in DOMAIN threads :
          /\ threads[t].pc = "returned"
          /\ Slashes(threads[t].repo) = 2
          /\ threads[t].err.msg = "invalid repo"
          /\ threads[t].ngets = 0
          /\ At(gets, threads[t].repo) = 0
          /\ DOMAIN cache # {}
          /\ threads[t].repo \notin DOMAIN cache

\* ------------------------------------------------------------------- C12

\* the step processes a require directive, a replace directive
RequireStep == ndir' = ndir + 1 /\ dir'.kind = "require"
ReplaceStep == ndir' = ndir + 1 /\ dir'.kind = "replace"

\* a module path of the form github.com/<owner>/<name>[/...]
Recognized(p) ==
    /\ Len(p) >= 2
    /\ p[1] = Host
    /\ p[2] = Slash
    /\ Slashes(p) >= 2

\* what follows the host prefix, up to the second separator after it
IdentityOf(p) ==
    LET rest == SubSeq(p, 3, Len(p))
        seps == {k \in 1..Len(rest) : rest[k] = Slash}
        second == {k \in seps : Cardinality({j \in seps : j < k}) = 1}
    IN  IF second = {} THEN rest
        ELSE SubSeq(rest, 1, (CHOOSE k \in second : TRUE) - 1)

\* the References the index rs holds for an identity, in order
RefsOf(rs, id) == IF id \in DOMAIN rs THEN rs[id] ELSE <<>>

\* the index holds a Reference of the manifest for the identity
HasRef(rs, id, name) == \E k \in 1..Len(RefsOf(rs, id)) : RefsOf(rs, id)[k].goModPath = name

\* the step appends exactly the Reference ref under the identity id
AppendsOne(id, ref) ==
    /\ RefsOf(repos', id) = Append(RefsOf(repos, id), ref)
    /\ \A o \in (DOMAIN repos \cup DOMAIN repos') \ {id} : RefsOf(repos', o) = RefsOf(repos, o)

\* C12: a replace directive whose target is a recognized github.com path
\* appends exactly one Reference {manifest, indirect = false} for the
\* target's identity if and only if the index holds no Reference of that
\* manifest for that identity at that moment; otherwise it appends nothing.
C12_ReplaceAddsDirectOnce ==
    [][ReplaceStep /\ Recognized(dir'.path) =>
          LET id == IdentityOf(dir'.path)
              name == files[fi]
          IN  IF HasRef(repos, id, name)
              THEN repos' = repos
              ELSE AppendsOne(id, [indirect |-> FALSE, goModPath |-> name])]_vars

\* a manifest whose first directive replaces a module by github.com/a/b has
\* given a/b a direct Reference, and nothing requires a/b
C12_Witness ==
    /\ dir.kind = "replace"
    /\ ndir = 1
    /\ Recognized(dir.path)
    /\ RefsOf(repos, IdentityOf(dir.path)) = <<[indirect |-> FALSE, goModPath |-> files[fi]]>>
    /\ DOMAIN repos = {IdentityOf(dir.path)}

\* ------------------------------------------------------------------- C13

\* the module path starts with the host prefix github.com/
OnHost(p) == Len(p) >= 2 /\ p[1] = Host /\ p[2] = Slash

\* C13: a requirement whose path starts with github.com/ and has an owner
\* and a name segment yields exactly one Reference {manifest, indirect = the
\* requirement's flag} under the identity made of the two segments after the
\* host, whatever subpath follows; a requirement of another host yields
\* nothing.
C13_RequireYieldsOneReference ==
    [][RequireStep =>
          /\ Recognized(dir'.path) =>
                AppendsOne(IdentityOf(dir'.path),
                           [indirect |-> dir'.indirect, goModPath |-> files[fi]])
          /\ ~OnHost(dir'.path) => repos' = repos]_vars

\* a manifest has required github.com/x/y and then, indirectly, its subpath
\* github.com/x/y/v2: x/y holds one Reference for each
C13_Witness ==
    /\ dir.kind = "require"
    /\ dir.indirect
    /\ dir.path = <<Host, Slash, "x", Slash, "y", Slash, "v2">>
    /\ RefsOf(repos, <<"x", Slash, "y">>) =
           <<[indirect |-> FALSE, goModPath |-> files[fi]],
             [indirect |-> TRUE, goModPath |-> files[fi]]>>
    /\ DOMAIN repos = {<<"x", Slash, "y">>}

\* ------------------------------------------------------------------- C14

\* the string s contains the string sub
Contains(s, sub) ==
    \E k \in 1..(Len(s) - Len(sub) + 1) : SubSeq(s, k, k + Len(sub) - 1) = sub

Segments(p) == Slashes(p) + 1

\* the slash-separated segments that follow the host
SegmentsAfterHost(p) == Segments(p) - 1

\* C15 as stated: a require or replace-target path with fewer than three
\* slash-separated segments after the host is ignored by extraction.
C15_ShortPathIgnored_AsStated ==
    [][(RequireStep \/ ReplaceStep) /\ OnHost(dir'.path)
          /\ SegmentsAfterHost(dir'.path) < 3 => repos' = repos]_vars

\* C15, amended: a require or replace-target path with fewer than three
\* slash-separated segments in all, the host counted, is ignored by
\* extraction: the index is left as it was.
C15_ShortPathIgnored ==
    [][(RequireStep \/ ReplaceStep) /\ OnHost(dir'.path)
          /\ Segments(dir'.path) < 3 => repos' = repos]_vars

\* a manifest has required github.com/x/y and then github.com/x, and the
\* index holds the Reference of the first only
C15_Witness ==
    /\ dir.kind = "require"
    /\ dir.path = <<Host, Slash, "x">>
    /\ ndir = 2
    /\ DOMAIN repos = {<<"x", Slash, "y">>}
    /\ Len(repos[<<"x", Slash, "y">>]) = 1

\* ------------------------------------------------------------------- C16

\* the goroutines inside a Print call: the line is written, or being
\* written, and the increment of the counter has not ended
InPrint == {t \in DOMAIN threads : threads[t].pc \in {"lock", "incr"}}

\* C16: the write of an output line and the increment of the counter in
\* archivedPrinter.Print are done together under one mutex, so no two Print
\* calls overlap between the start of their line write and the end of their
\* counter increment.
C16_PrintIsOneCriticalSection ==
    Cardinality(InPrint) <= 1

\* ------------------------------------------------------------------- C17

\* the step in which goroutine t enters Print and writes
PrintfStep(t) ==
    /\ threads[t].pc = "loop"
    /\ threads'[t].pc = "lock"

\* the step in which goroutine t ends its Print call
PrintEnds(t) ==
    /\ threads[t].pc = "incr"
    /\ threads'[t].pc # "incr"

\* the line of a Reference of an identity whose lookup gave pushedAt
ExpectedLine(info, repo, pushedAt) ==
    IF info.indirect
    THEN <<info.goModPath, ": https://github.com/">> \o repo
             \o <<" (last push: ", pushedAt, ")", " // indirect">>
    ELSE <<info.goModPath, ": https://github.com/">> \o repo
             \o <<" (last push: ", pushedAt, ")">>

\* C17: each Print call writes exactly one output line, which ends with the
\* marker " // indirect" if and only if the Reference is indirect, and
\* increases Count by exactly one; whatever the interleaving, Count is the
\* number of Print calls that have completed (no update is lost).
C17_PrintWritesOneLineCountsOne ==
    /\ [][\A t \in DOMAIN threads :
            /\ PrintfStep(t) =>
                  LET info == repos[t][threads[t].i + 1]
                  IN  /\ output' = Append(output,
                                          ExpectedLine(info, t, threads[t].ret.PushedAt))
                      /\ (output'[Len(output')][Len(output'[Len(output')])] = " // indirect")
                            <=> info.indirect
                      /\ count' = count
            /\ threads[t].pc = "lock" /\ threads'[t] # threads[t] =>
                  /\ output' = output
                  /\ count' = count
            /\ PrintEnds(t) =>
                  /\ output' = output
                  /\ count' = count + 1]_vars
    /\ [](Count = Len(output) - Cardinality(InPrint))

\* two goroutines have each completed a Print call, one for a direct and one
\* for an indirect Reference, and ListArchived has returned the count 2
C17_Witness ==
    /\ pc = "done"
    /\ Count = 2
    /\ retCount = 2
    /\ Len(output) = 2
    /\ \E t, u \in DOMAIN threads :
          /\ t # u
          /\ threads[t].i = 1
          /\ threads[u].i = 1
          /\ ~repos[t][1].indirect
          /\ repos[u][1].indirect
          /\ Printed(ExpectedLine(repos[t][1], t, threads[t].ret.PushedAt)) # {}
          /\ Printed(ExpectedLine(repos[u][1], u, threads[u].ret.PushedAt)) # {}

\* ------------------------------------------------------------------- C18

\* C18 as stated: the exit code of the gomod command is 0 when the count
\* returned by ListArchived is 0, and non-zero otherwise.
C18_ExitCodeFollowsCount_AsStated ==
    pc = "exited" => (exitCode = 0 <=> retCount = 0)

\* C18, amended: the exit code of the gomod command is 0 when ListArchived
\* returns the count 0 and no error, and non-zero otherwise: when the count
\* is above zero, and when ListArchived returns an error (with the count 0).
C18_ExitCodeFollowsCount ==
    pc = "exited" =>
        /\ exitCode >= 0
        /\ exitCode = 0 <=> (retCount = 0 /\ retErr = NilErr)
        /\ retErr # NilErr => retCount = 0

\* the command has exited with a non-zero code after ListArchived returned
\* two matches and no error
C18_Witness ==
    /\ pc = "exited"
    /\ retErr = NilErr
    /\ retCount = 2
    /\ exitCode # 0

\* ------------------------------------------------------------------- C19

\* ListArchived has returned
HasReturned == pc \in {"done", "exited"}

\* the step in which a manifest fails to be read or parsed
SkipStep ==
    /\ pc = "read"
    /\ pc' # "require"

\* C19: when the traversal of FindFiles fails, ListArchived returns the count
\* 0 and a non-nil error at once: no manifest is read, no client is created,
\* no unit is launched and nothing is printed. A failure to read or parse a
\* manifest never makes ListArchived return an error: an error it returns is
\* that of the traversal, or that of the creation of the API client.
C19_TraversalFailureIsFatal ==
    /\ [](walkErr =>
            /\ HasReturned
            /\ retCount = 0
            /\ retErr # NilErr
            /\ retErr.msg = "failed to find go.mod files"
            /\ ndir = 0
            /\ repos = EmptyMap
            /\ ~clientCreated
            /\ threads = EmptyMap
            /\ lookups = EmptyMap
            /\ output = <<>>
            /\ Count = 0)
    /\ [][pc = "find" /\ walkErr' => pc' = "done"]_vars
    /\ [][SkipStep => retErr' = NilErr /\ ~HasReturned']_vars
    /\ [](HasReturned /\ retErr # NilErr =>
            \/ walkErr
            \/ ~walkErr /\ retErr.msg = "failed to create github api client")

\* the traversal has failed and ListArchived has returned its error
C19_Witness ==
    /\ pc = "done"
    /\ walkErr
    /\ retCount = 0
    /\ retErr.msg = "failed to find go.mod files"

\* ------------------------------------------------------------------- C20

\* the manifests that have a Reference in the index rs
ManifestsOf(rs) ==
    UNION { {rs[id][k].goModPath : k \in 1..Len(rs[id])} : id \in DOMAIN rs }

\* C20: a manifest that cannot be read or parsed is skipped. The skip leaves
\* the index, the count and the error as they were and moves on to the next
\* manifest; the skipped manifest has no Reference in the index, then and
\* later; every Reference the index gains is appended by a directive of the
\* manifest in hand, under that manifest's path, so the References of the
\* other manifests are those of a run without the skipped one; and
\* ListArchived returns no error because of it.
C20_FailedManifestSkipped ==
    /\ [][SkipStep =>
            /\ repos' = repos
            /\ retErr' = NilErr
            /\ retCount' = retCount
            /\ fi' = fi + 1
            /\ pc' = (IF fi < Len(files) THEN "read" ELSE "check")
            /\ files[fi] \notin ManifestsOf(repos')
            /\ UNCHANGED <<files, ndir, threads, output, count, clientCreated>>]_vars
    /\ [][repos' # repos =>
            /\ RequireStep \/ ReplaceStep
            /\ fi' = fi
            /\ \E id \in DOMAIN repos' :
                  AppendsOne(id, [indirect |-> dir'.indirect, goModPath |-> files[fi]])]_vars
    /\ [][fi' >= fi]_vars
    /\ [](dir.kind \in {"read failed", "parse failed"} => dir.name \notin ManifestsOf(repos))
    /\ [](HasReturned /\ ~walkErr /\ (clientCreated \/ repos = EmptyMap) => retErr = NilErr)

\* of two manifests the first has given the index its References and the
\* second could not be parsed: the loop has ended with the index of the first
C20_Witness ==
    /\ pc = "check"
    /\ Len(files) = 2
    /\ fi = 3
    /\ dir.kind = "parse failed"
    /\ dir.name = files[2]
    /\ ManifestsOf(repos) = {files[1]}
    /\ retErr = NilErr

\* ------------------------------------------------------------------- C21

\* the state of an identity of the index: discovered; skipped by the policy
\* (the loop over repos went past it and launched nothing); its lookup in
\* flight; or, once its goroutine has the lookup's outcome, failed, archived
\* (and being reported) or not archived
Phase(repo) ==
    IF repo \notin DOMAIN threads
    THEN IF clientCreated /\ repo \notin pending THEN "skipped" ELSE "discovered"
    ELSE IF threads[repo].pc \in {"call", "get", "set", "returned"} THEN "inflight"
    ELSE IF threads[repo].err # NilErr THEN "failed"
    ELSE IF threads[repo].ret.Archived THEN "archived"
    ELSE "notarchived"

\* the same, in the next state
PhaseNext(repo) ==
    IF repo \notin DOMAIN threads'
    THEN IF clientCreated' /\ repo \notin pending' THEN "skipped" ELSE "discovered"
    ELSE IF threads'[repo].pc \in {"call", "get", "set", "returned"} THEN "inflight"
    ELSE IF threads'[repo].err # NilErr THEN "failed"
    ELSE IF threads'[repo].ret.Archived THEN "archived"
    ELSE "notarchived"

\* the transitions of the per-identity state machine, staying put included
PhaseSteps ==
    { <<"discovered", "discovered">>, <<"discovered", "skipped">>, <<"discovered", "inflight">>,
      <<"skipped", "skipped">>,
      <<"inflight", "inflight">>, <<"inflight", "archived">>, <<"inflight", "notarchived">>,
      <<"inflight", "failed">>,
      <<"archived", "archived">>, <<"notarchived", "notarchived">>, <<"failed", "failed">> }

\* the goroutines that have not run their wg.Done()
Running == {t \in DOMAIN threads : threads[t].pc # "done"}

\* C21: every identity of the index moves Discovered -> (Skipped-by-policy |
\* Lookup-in-flight) and from in flight to exactly one of archived-and-
\* reported, not-archived, lookup-failed, where it stays. An identity is
\* skipped exactly when the policy rejects it, exactly one goroutine is
\* launched for each accepted identity and none for a skipped one, at most
\* one lookup and one remote Get are issued per identity, and when the
\* resolution returns every identity is in a terminal state.
C21_IdentityStateMachine ==
    /\ [][\A repo \in DOMAIN repos : <<Phase(repo), PhaseNext(repo)>> \in PhaseSteps]_vars
    /\ [](\A repo \in DOMAIN repos :
            /\ Phase(repo) = "skipped" => ~checkIndirect /\ ~HasDirect(repos[repo])
            /\ Phase(repo) \notin {"discovered", "skipped"} =>
                  checkIndirect \/ HasDirect(repos[repo])
            /\ At(lookups, repo) <= 1
            /\ At(gets, repo) <= 1
            /\ Phase(repo) \in {"discovered", "skipped"} => At(lookups, repo) = 0)
    /\ [](DOMAIN threads \subseteq DOMAIN repos /\ wg = Cardinality(Running))
    /\ [](HasReturned /\ clientCreated =>
            \A repo \in DOMAIN repos :
                /\ Phase(repo) \in {"skipped", "archived", "notarchived", "failed"}
                /\ repo \in DOMAIN threads => threads[repo].pc = "done"
                /\ Phase(repo) = "archived" <=> PrintedFor(repo) # {})

\* ListArchived has returned with one identity skipped by the policy and one
\* archived and reported
C21_Witness ==
    /\ pc = "done"
    /\ clientCreated
    /\ \E a, b \in DOMAIN repos :
          /\ Phase(a) = "skipped"
          /\ Phase(b) = "archived"
          /\ PrintedFor(b) # {}

\* ------------------------------------------------------------------- C22

\* the line names the identity repo
Names(line, repo) ==
    /\ Len(line) >= Len(repo) + 3
    /\ SubSeq(line, 3, Len(repo) + 2) = repo
    /\ line[Len(repo) + 3] = " (last push: "

\* the lines of the output that name the identity, in the output's order
OutputOf(repo) == SelectSeq(output, LAMBDA line : Names(line, repo))

\* the lines of the References that a run reports, in the References' order
RECURSIVE KeptLines(_, _, _, _)
KeptLines(check, infos, repo, pushedAt) ==
    IF infos = <<>> THEN <<>>
    ELSE (IF check \/ ~Head(infos).indirect
          THEN <<ExpectedLine(Head(infos), repo, pushedAt)>>
          ELSE <<>>)
         \o KeptLines(check, Tail(infos), repo, pushedAt)

\* C22: whatever the interleaving with the goroutines of other identities,
\* the lines printed for an identity are, in the output's order, a prefix of
\* the lines of its reported References in the order the References were
\* appended during extraction, and all of them once an archived identity's
\* goroutine is done.
C22_LinesFollowReferenceOrder ==
    \A repo \in DOMAIN repos :
        LET lines == OutputOf(repo)
            kept == IF repo \in DOMAIN threads
                    THEN KeptLines(checkIndirect, repos[repo], repo,
                                   threads[repo].ret.PushedAt)
                    ELSE <<>>
        IN  /\ Len(lines) <= Len(kept)
            /\ lines = SubSeq(kept, 1, Len(lines))
            /\ LookedUpArchived(repo) /\ threads[repo].pc = "done" => lines = kept

\* ListArchived has returned after the two lines of x/y, which differ, were
\* written in the order of its References with the line of a/b between them
C22_Witness ==
    /\ pc = "done"
    /\ Len(output) = 3
    /\ Names(output[1], <<"x", Slash, "y">>)
    /\ Names(output[2], <<"a", Slash, "b">>)
    /\ Names(output[3], <<"x", Slash, "y">>)
    /\ output[1] # output[3]
    /\ OutputOf(<<"x", Slash, "y">>) = <<output[1], output[3]>>

\* ------------------------------------------------------------------- C23

\* the call of t has returned the outcome of a remote Get of its own
Fetched(t) ==
    /\ threads[t].pc = "returned"
    /\ threads[t].ngets = 1
    /\ threads[t].err = NilErr

\* C23: concurrent calls of GetRepoResult for one identity are safe. Each
\* call that misses issues a remote Get of its own; a call whose Get
\* succeeded returns the value that Get produced and stores that very value;
\* the cache changes only by such a store, so the identity's entry is always
\* the value of one of the successful calls, whole, and is there as soon as
\* one has succeeded; a call whose Get failed stores nothing.
C23_ConcurrentCallsAreSafe ==
    /\ [][\A t \in DOMAIN threads :
            /\ CheckStep(t) /\ ~Live(threads[t].repo) /\ TwoSegments(threads[t].repo) =>
                  /\ threads'[t].pc = "get"
                  /\ threads'[t].ngets = 1
                  /\ At(gets', threads[t].repo) = At(gets, threads[t].repo) + 1
            /\ SetStep(t) =>
                  /\ threads'[t].ret = threads[t].result
                  /\ threads'[t].err = NilErr
                  /\ threads[t].repo \in DOMAIN cache'
                  /\ cache'[threads[t].repo].val = threads[t].result
                  /\ \A o \in DOMAIN cache' \ {threads[t].repo} :
                        o \in DOMAIN cache /\ cache'[o] = cache[o]
            /\ GetFailsStep(t) => cache' = cache]_vars
    /\ [][cache' # cache => \E t \in DOMAIN threads : SetStep(t)]_vars
    /\ [](\A t \in DOMAIN threads :
            Fetched(t) =>
                /\ threads[t].repo \in DOMAIN cache
                /\ cache[threads[t].repo].val \in RepoResults
                /\ \/ cache[threads[t].repo].val = threads[t].ret
                   \/ At(gets, threads[t].repo) >= 2)

\* both callers missed for x/y and each fetched: their Gets produced
\* different values, each has returned its own, and the cache holds the
\* value of the first caller
C23_Witness ==
    LET c1 == <<"caller1">>
        c2 == <<"caller2">>
        xy == <<"x", Slash, "y">>
    IN  /\ threads[c1].repo = xy
        /\ threads[c2].repo = xy
        /\ Fetched(c1)
        /\ Fetched(c2)
        /\ threads[c1].ret # threads[c2].ret
        /\ At(gets, xy) = 2
        /\ At(lookups, xy) = 2
        /\ cache[xy].val = threads[c1].ret

\* ------------------------------------------------------------------- C24

\* the remote Get of the identity's goroutine is in flight
InGet(t) == t \in DOMAIN threads /\ threads[t].pc = "get"

\* C24: if every remote Get eventually returns, ListArchived eventually
\* returns under fair scheduling; if the remote Get of some launched
\* goroutine never returns, ListArchived never returns.
C24_ReturnsIffEveryGetReturns ==
    /\ (\A t \in Identities : [](InGet(t) => <>~InGet(t))) => <>HasReturned
    /\ \A t \in Identities : <>[]InGet(t) => []~HasReturned

\* ListArchived has returned after the remote Gets of two goroutines
\* returned, one of them with an error
C24_Witness ==
    /\ pc = "done"
    /\ wg = 0
    /\ Cardinality(DOMAIN threads) = 2
    /\ \A t \in DOMAIN threads : threads[t].pc = "done" /\ threads[t].ngets = 1
    /\ \E t \in DOMAIN threads : threads[t].err # NilErr

\* ------------------------------------------------------------------- C25

\* the identities of the index that the policy accepts
Accepted == {repo \in DOMAIN repos : checkIndirect \/ HasDirect(repos[repo])}

\* the remote Gets issued so far, over all identities
RemoteGets == Total(gets)

\* C25: within one ListArchived call the cache is never hit: the cache is
\* empty when the client is created, no lookup finds an entry, each accepted
\* identity is looked up exactly once, and the number of remote Gets issued
\* by the time ListArchived returns is exactly the number of accepted
\* identities.
C25_CacheNeverHit ==
    /\ [][\A t \in DOMAIN threads : CheckStep(t) =>
            /\ threads[t].repo \notin DOMAIN cache
            /\ threads'[t].pc = "get"
            /\ threads'[t].ngets = 1]_vars
    /\ [](~clientCreated => cache = EmptyMap /\ gets = EmptyMap)
    /\ [](/\ DOMAIN gets \subseteq Accepted
          /\ \A repo \in DOMAIN gets : gets[repo] = 1 /\ At(lookups, repo) = 1
          /\ RemoteGets <= Cardinality(Accepted))
    /\ [](HasReturned /\ clientCreated =>
            /\ RemoteGets = Cardinality(Accepted)
            /\ DOMAIN gets = Accepted
            /\ DOMAIN lookups = Accepted)

\* ListArchived has returned after two remote Gets for two accepted
\* identities, both of which were then stored in the cache
C25_Witness ==
    /\ pc = "done"
    /\ clientCreated
    /\ Cardinality(Accepted) = 2
    /\ RemoteGets = 2
    /\ DOMAIN cache = Accepted

\* ------------------------------------------------------------------- C26

\* the record of the manifest, empty for one that was skipped or not reached
ManifestOf(name) == IF name \in DOMAIN mfs THEN mfs[name] ELSE NoDirectives

\* the module path maps to the identity
MapsTo(p, id) == Recognized(p) /\ IdentityOf(p) = id

\* the require entries of the manifest that map to the identity, in order
RequiresOf(id, name) ==
    SelectSeq(ManifestOf(name).Require, LAMBDA req : MapsTo(req.path, id))

\* some replace directive of the manifest targets the identity
ReplaceTargets(id, name) ==
    \E k \in 1..Len(ManifestOf(name).Replace) : MapsTo(ManifestOf(name).Replace[k], id)

\* the References of the index for the identity and the manifest, in order
PairRefs(id, name) ==
    SelectSeq(RefsOf(repos, id), LAMBDA info : info.goModPath = name)

\* the identities the module paths of the recorded runs map to
MappedIdentities == {IdentityOf(p) : p \in {q \in RecordedPaths : Recognized(q)}}

\* C26: for every identity and manifest, the index holds as many References as
\* the manifest has require entries mapping to the identity, each with the
\* flag of its entry, plus one direct Reference if there is no such entry and
\* some replace directive of the manifest targets the identity. So a replace
\* whose target the manifest requires only indirectly adds no direct
\* Reference, and two require entries of one manifest with the same owner and
\* name give two References of that manifest.
C26_ReferencesPerManifest ==
    \A id \in MappedIdentities \cup DOMAIN repos :
       \A name \in {ManifestNames[k] : k \in 1..Len(ManifestNames)} :
          LET reqs == RequiresOf(id, name)
              refs == PairRefs(id, name)
          IN  /\ Len(refs) = Len(reqs)
                                + (IF reqs = <<>> /\ ReplaceTargets(id, name) THEN 1 ELSE 0)
              /\ reqs = <<>> => \A k \in 1..Len(refs) : ~refs[k].indirect
              /\ reqs # <<>> => \A k \in 1..Len(refs) : refs[k].indirect = reqs[k].indirect
              /\ (reqs # <<>> /\ \A k \in 1..Len(reqs) : reqs[k].indirect)
                    => \A k \in 1..Len(refs) : refs[k].indirect

\* the loop is over, one manifest required x/y and x/y/v2, and the index
\* holds two References of that manifest for x/y
C26_Witness ==
    /\ pc = "check"
    /\ \E name \in DOMAIN mfs :
          /\ Len(RequiresOf(<<"x", Slash, "y">>, name)) = 2
          /\ mfs[name].Require[1].path # mfs[name].Require[2].path
          /\ Len(PairRefs(<<"x", Slash, "y">>, name)) = 2

\* ------------------------------------------------------------------- C27

\* the orders the manifests names can be listed in
Orders(names) ==
    {o \in [1..Len(names) -> {names[k] : k \in 1..Len(names)}] :
        \A i, j \in 1..Len(names) : i # j => o[i] # o[j]}

\* C27: the result does not depend on the order of the manifests. When the
\* loop over the manifests has ended, the same manifests taken in any other
\* order give, for every answer of the remote to every identity, the same
\* identities looked up, the same multiset of printed lines and the same
\* count as the index the run has built.
C27_ManifestOrderIrrelevant ==
    pc = "check" =>
        LET others == {ExtractAll(EmptyMap, order, mfs) : order \in Orders(files)}
        IN  /\ repos \in others
            /\ \A other \in others : DOMAIN other = DOMAIN repos
            /\ \A answers \in [DOMAIN repos -> Answers] :
                   LET this == Resolve(checkIndirect, repos, answers)
                   IN  \A other \in others :
                          Resolve(checkIndirect, other, answers) = this

\* the loop has ended over two manifests that both refer to x/y, the first
\* indirectly, and the index differs from the one of the other order
C27_Witness ==
    /\ pc = "check"
    /\ Len(files) = 2
    /\ <<"x", Slash, "y">> \in DOMAIN repos
    /\ Len(PairRefs(<<"x", Slash, "y">>, files[1])) = 1
    /\ Len(PairRefs(<<"x", Slash, "y">>, files[2])) = 1
    /\ repos[<<"x", Slash, "y">>][1].indirect
    /\ ~repos[<<"x", Slash, "y">>][2].indirect
    /\ ExtractAll(EmptyMap, <<files[2], files[1]>>, mfs) # repos

\* ------------------------------------------------------------------- C28

\* what GetRepoResult returned to the goroutine of the identity
Observed(repo) == [ok |-> threads[repo].err = NilErr, result |-> threads[repo].ret]

\* the answers of the remote that agree with those the run has seen
SameAnswers ==
    {answers \in [DOMAIN repos -> Answers] :
        \A repo \in DOMAIN threads : answers[repo] = Observed(repo)}

\* every line of the multiset small is in big, at least as often
SubBag(small, big) ==
    \A l \in DOMAIN small : l \in DOMAIN big /\ small[l] <= big[l]

\* what the run looked up, printed and returned
ThisRun == [lookedUp |-> DOMAIN lookups, lines |-> BagOfLines(output), count |-> retCount]

\* C28: for the same manifests and the same answers of the remote, a run
\* with includeIndirect = true looks up every identity a run with
\* includeIndirect = false looks up, prints every line it prints, the same
\* tokens, at least as often, and returns a count at least as large. The run
\* that has returned is the one of the two that has its flag.
C28_IncludeIndirectOnlyAdds ==
    (HasReturned /\ retErr = NilErr) =>
        \A answers \in SameAnswers :
            LET with    == Resolve(TRUE, repos, answers)
                without == Resolve(FALSE, repos, answers)
            IN  /\ ThisRun = (IF checkIndirect THEN with ELSE without)
                /\ without.lookedUp \subseteq with.lookedUp
                /\ SubBag(without.lines, with.lines)
                /\ without.count <= with.count

\* a run without indirects has returned one line and skipped an identity,
\* and with indirects the same manifests give three lines when every
\* repository is archived
C28_Witness ==
    /\ HasReturned
    /\ retErr = NilErr
    /\ ~checkIndirect
    /\ retCount = 1
    /\ DOMAIN lookups # DOMAIN repos
    /\ \E answers \in SameAnswers :
          /\ Resolve(TRUE, repos, answers).count = 3
          /\ Resolve(TRUE, repos, answers).lookedUp = DOMAIN repos

====
